---- MODULE Spec2Model ----
(***************************************************************************)
(* Model of bot.py: the per-user session store, the URL handler with its   *)
(* format catalog, and the button handler with its download and delivery.  *)
(*                                                                         *)
(* Handlers are coroutines on one event loop.  A handler gives up the loop *)
(* only at an `await`; everything between two awaits is one atomic step.   *)
(* The two engine calls (extract_info, download) are plain synchronous     *)
(* calls: while one runs, the loop is held by the handler that made it.    *)
(***************************************************************************)
EXTENDS Integers, Sequences, FiniteSets, TLC

VARIABLES
    formats,        \* info['formats'] of the URL being catalogued
    stage,          \* how far the catalog code of handle_url has run
    video_formats,  \* handle_url's local video_formats
    audio_formats,  \* handle_url's local audio_formats
    keyboard        \* handle_url's local keyboard

catVars == <<formats, stage, video_formats, audio_formats, keyboard>>

VARIABLES
    user_sessions,  \* the module-level dict user_sessions, by user id
    tmpdirs,        \* the directories made by tempfile.mkdtemp that still exist
    pc,             \* per handler invocation: the await or call it is suspended in
    ev,             \* per handler invocation: the update it handles
    loc,            \* per handler invocation: its local variables
    running,        \* the invocation inside a synchronous engine call, or 0
    menus           \* per user: the callback data of the buttons put into the chat

botVars == <<user_sessions, tmpdirs, pc, ev, loc, running, menus>>
vars == <<user_sessions, tmpdirs, pc, ev, loc, running, menus,
          formats, stage, video_formats, audio_formats, keyboard>>

(***************************************************************************)
(* Python values                                                           *)
(***************************************************************************)
\* text fields: dict.get(k) of a key that is missing or holds None, and a key
\* that is missing where the code passes its own default to dict.get
None == "None"
Absent == "Absent"

\* numeric fields carry their Python type
PyInt(n) == [t |-> "int", v |-> n]
PyFloat(w, f) == [t |-> "float", v |-> w, frac |-> f]
NoneNum == [t |-> "none"]
AbsentNum == [t |-> "absent"]
\* a piece of literal text inside a label
Text(s) == [t |-> "text", s |-> s]

\* str.isdigit() of the text of a value: true of a non-negative int only
\* ("None", "129.5", "audio" are not all digits)
IsDigitText(x) == x.t = "int" /\ x.v >= 0

\* truthiness of a number or None as used in `if fps`, `if abr`, `if filesize`
Truthy(x) ==
    CASE x.t = "int"   -> x.v # 0
      [] x.t = "float" -> x.v # 0 \/ x.frac # 0
      [] OTHER         -> FALSE

(***************************************************************************)
(* Format catalog (handle_url, lines 123-206)                              *)
(***************************************************************************)
VideoLimit == 8
AudioLimit == 6
MiB == 1048576

\* f.get(key, default)
GetOr(x, default) == IF x.t = "absent" THEN default ELSE x

\* f.get('filesize') or f.get('filesize_approx')
FileSizeOf(f) == IF Truthy(f.filesize) THEN f.filesize ELSE f.filesize_approx

\* round(filesize / (1024 * 1024), 1) if filesize else '?', in tenths of a MB
SizeMb(filesize) ==
    IF Truthy(filesize) THEN PyInt((filesize.v * 10 + MiB \div 2) \div MiB) ELSE Text("?")

\* fps > 30
GreaterThan30(x) ==
    IF x.t = "int" THEN x.v > 30 ELSE x.v > 30 \/ (x.v = 30 /\ x.frac > 0)

\* f"{height}p", plus f"@{int(fps)}fps" when fps and fps > 30.
\* A label is the sequence of its pieces; a number stands for its decimal text.
VideoQuality(f) ==
    LET height == GetOr(f.height, PyInt(0))
        fps    == GetOr(f.fps, PyInt(0))
    IN  IF Truthy(fps) /\ GreaterThan30(fps)
        THEN <<height, Text("p"), Text("@"), PyInt(fps.v), Text("fps")>>
        ELSE <<height, Text("p")>>

\* f"{abr}kbps" if abr else "audio"
AudioQuality(f) ==
    LET abr == GetOr(f.abr, PyInt(0))
    IN  IF Truthy(abr) THEN <<abr, Text("kbps")>> ELSE <<Text("audio")>>

\* a format_id that is missing, None or '' (all false under `not format_id`)
NoId == <<>>

\* the loop's `continue`: not format_id or ext == 'unknown'
Skipped(f) == f.format_id = NoId \/ f.ext = Absent

\* f.get('vcodec') != 'none'
IsVideo(f) == f.vcodec # "none"

\* elif f.get('acodec') != 'none' and f.get('vcodec') == 'none'
IsAudio(f) == ~IsVideo(f) /\ f.acodec # "none" /\ f.vcodec = "none"

VideoEntry(f) ==
    [id |-> f.format_id, quality |-> VideoQuality(f), ext |-> f.ext,
     size |-> SizeMb(FileSizeOf(f)), note |-> f.format_note,
     vcodec |-> f.vcodec, acodec |-> f.acodec]

AudioEntry(f) ==
    [id |-> f.format_id, quality |-> AudioQuality(f), ext |-> f.ext,
     size |-> SizeMb(FileSizeOf(f)), acodec |-> f.acodec]

\* the loop over info['formats'] up to entry n: (video_formats, audio_formats)
RECURSIVE ClassifyUpTo(_, _)
ClassifyUpTo(raw, n) ==
    IF n = 0 THEN [video |-> <<>>, audio |-> <<>>]
    ELSE LET r == ClassifyUpTo(raw, n - 1)
             f == raw[n]
         IN  IF Skipped(f) THEN r
             ELSE IF IsVideo(f)
                  THEN [r EXCEPT !.video = Append(@, VideoEntry(f))]
             ELSE IF IsAudio(f)
                  THEN [r EXCEPT !.audio = Append(@, AudioEntry(f))]
             ELSE r

Classify(raw) == ClassifyUpTo(raw, Len(raw))

\* a dict that keeps the first value stored under a key
DictPutFirstWins(d, e) ==
    IF \E k \in 1..Len(d) : d[k].id = e.id THEN d ELSE Append(d, e)

\* d[e['id']] = e on a dict kept as the sequence of its values: an existing key
\* keeps its place and takes the new value, a new key goes to the end
DictPut(d, e) ==
    IF \E k \in 1..Len(d) : d[k].id = e.id
    THEN [k \in 1..Len(d) |-> IF d[k].id = e.id THEN e ELSE d[k]]
    ELSE Append(d, e)

\* list({v['id']: v for v in entries}.values())
RECURSIVE DedupUpTo(_, _)
DedupUpTo(entries, n) ==
    IF n = 0 THEN <<>> ELSE DictPut(DedupUpTo(entries, n - 1), entries[n])

DedupById(entries) == DedupUpTo(entries, Len(entries))

\* x['quality'].replace(suffix, ''): the label without its pieces equal to suffix
\* ('p' also takes the p out of "fps")
RECURSIVE Replace(_, _)
Replace(label, suffix) ==
    IF label = <<>> THEN <<>>
    ELSE LET rest == Replace(Tail(label), suffix)
         IN  IF Head(label) = suffix THEN rest
             ELSE IF suffix = Text("p") /\ Head(label) = Text("fps")
                  THEN <<Text("fs")>> \o rest
             ELSE <<Head(label)>> \o rest

\* s.split('@')[0]
RECURSIVE SplitAt0(_)
SplitAt0(label) ==
    IF label = <<>> \/ Head(label) = Text("@") THEN <<>>
    ELSE <<Head(label)>> \o SplitAt0(Tail(label))

\* int(s) if s.isdigit() else 0
IntOrZero(text) ==
    IF Len(text) = 1 /\ IsDigitText(text[1]) THEN text[1].v ELSE 0

\* the video sort key, line 174
VideoKey(x) == IntOrZero(SplitAt0(Replace(x.quality, Text("p"))))

\* the audio sort key, line 180
AudioKey(x) == IntOrZero(Replace(x.quality, Text("kbps")))

\* the key= of the two sorted() calls
SortKey(kind, x) == IF kind = "video" THEN VideoKey(x) ELSE AudioKey(x)

\* sorted(..., reverse=True) puts x after every entry whose key is >= its own:
\* the sort is stable, and reverse=True keeps equal keys in their given order
RECURSIVE InsertDesc(_, _, _)
InsertDesc(sorted, x, kind) ==
    IF sorted = <<>> THEN <<x>>
    ELSE IF SortKey(kind, Head(sorted)) >= SortKey(kind, x)
         THEN <<Head(sorted)>> \o InsertDesc(Tail(sorted), x, kind)
         ELSE <<x>> \o sorted

RECURSIVE SortedDescUpTo(_, _, _)
SortedDescUpTo(entries, n, kind) ==
    IF n = 0 THEN <<>>
    ELSE InsertDesc(SortedDescUpTo(entries, n - 1, kind), entries[n], kind)

\* a descending sort that puts x before the entries whose key equals its own
RECURSIVE InsertDescBeforeTies(_, _, _)
InsertDescBeforeTies(sorted, x, kind) ==
    IF sorted = <<>> THEN <<x>>
    ELSE IF SortKey(kind, Head(sorted)) > SortKey(kind, x)
         THEN <<Head(sorted)>> \o InsertDescBeforeTies(Tail(sorted), x, kind)
         ELSE <<x>> \o sorted

RECURSIVE SortedDescTiesReversedUpTo(_, _, _)
SortedDescTiesReversedUpTo(entries, n, kind) ==
    IF n = 0 THEN <<>>
    ELSE InsertDescBeforeTies(SortedDescTiesReversedUpTo(entries, n - 1, kind),
                              entries[n], kind)

\* sorted(entries, key=...)[::-1]: descending, equal keys in reverse order
SortedDescTiesReversed(entries, kind) ==
    SortedDescTiesReversedUpTo(entries, Len(entries), kind)

\* sorted(entries, key=..., reverse=True)
SortedDesc(entries, kind) == SortedDescUpTo(entries, Len(entries), kind)

\* entries[:n + 1]
PrefixOneMore(entries, n) ==
    SubSeq(entries, 1, IF Len(entries) < n + 1 THEN Len(entries) ELSE n + 1)

\* entries[:n]
Prefix(entries, n) == SubSeq(entries, 1, IF Len(entries) < n THEN Len(entries) ELSE n)

\* callback data and format ids are texts kept character by character
HeaderVideo == <<"h","e","a","d","e","r","_","v","i","d","e","o">>
HeaderAudio == <<"h","e","a","d","e","r","_","a","u","d","i","o">>
CancelToken == <<"c","a","n","c","e","l">>
VideoToken(id) == <<"v", "_">> \o id
AudioToken(id) == <<"a", "_">> \o id

\* s.startswith(prefix)
StartsWith(s, prefix) ==
    Len(s) >= Len(prefix) /\ SubSeq(s, 1, Len(prefix)) = prefix

\* fmt['ext'].upper()
Upper(ext) == [upper |-> ext]

\* f"{icon} {fmt['quality']} ({fmt['ext'].upper()})", plus f" [{fmt['size']}MB]"
\* when the size is known
ButtonText(icon, fmt) ==
    <<Text(icon)>> \o fmt.quality \o <<Upper(fmt.ext)>>
        \o (IF fmt.size # Text("?") THEN <<fmt.size, Text("MB")>> ELSE <<>>)

Button(text, data) == [text |-> text, callback_data |-> data]

\* lines 185-206: heading, at most VideoLimit video rows, heading, at most
\* AudioLimit audio rows, cancel
BuildKeyboard(videos, audios) ==
    (IF videos # <<>>
     THEN <<Button(<<Text("Video Formats")>>, HeaderVideo)>>
          \o [i \in 1..Len(Prefix(videos, VideoLimit)) |->
                Button(ButtonText("video", videos[i]), VideoToken(videos[i].id))]
     ELSE <<>>)
    \o
    (IF audios # <<>>
     THEN <<Button(<<Text("Audio Only")>>, HeaderAudio)>>
          \o [i \in 1..Len(Prefix(audios, AudioLimit)) |->
                Button(ButtonText("audio", audios[i]), AudioToken(audios[i].id))]
     ELSE <<>>)
    \o <<Button(<<Text("Cancel")>>, CancelToken)>>

(***************************************************************************)
(* The catalog code run on its own, over bounded raw format lists          *)
(***************************************************************************)
MaxClassLen == 2
MaxDedupLen == 3
MaxLong == 20

Digits == <<"0", "1", "2", "3", "4", "5", "6", "7", "8", "9">>
\* the two-digit text of i
IdText(i) == <<Digits[(i \div 10) + 1], Digits[(i % 10) + 1]>>

RawFormat(id, ext, vcodec, acodec, height, fps, abr, filesize) ==
    [format_id |-> id, ext |-> ext, vcodec |-> vcodec, acodec |-> acodec,
     height |-> height, fps |-> fps, abr |-> abr,
     filesize |-> filesize, filesize_approx |-> NoneNum, format_note |-> ""]

SeqsUpTo(S, n) == UNION {[1..k -> S] : k \in 0..n}

\* every combination of identifier, extension and the two codecs
ClassEntries ==
    {RawFormat(id, ext, vc, ac, PyInt(360), PyInt(30), PyInt(128), NoneNum) :
        id \in {NoId, IdText(18)}, ext \in {Absent, "mp4"},
        vc \in {None, "none", "avc1"}, ac \in {None, "none", "mp4a"}}

\* well-formed video and audio entries that repeat identifiers and sort keys
DedupEntries ==
    {RawFormat(IdText(id), "mp4", "avc1", "mp4a", h, PyInt(30), AbsentNum, sz) :
        id \in {18, 22}, h \in {PyInt(360), PyInt(720), NoneNum},
        sz \in {NoneNum, PyInt(10 * MiB)}}
    \cup
    {RawFormat(IdText(id), "m4a", "none", "mp4a", AbsentNum, AbsentNum, abr, sz) :
        id \in {18, 22}, abr \in {PyInt(64), PyInt(128), PyFloat(129, 5)},
        sz \in {NoneNum, PyInt(10 * MiB)}}

\* long lists: entry i of pattern p
LongEntry(p, i) ==
    CASE p = 1 -> RawFormat(IdText(i), "mp4", "avc1", "mp4a", PyInt(i * 10),
                            PyInt(30), AbsentNum, PyInt(50 * MiB))
      [] p = 2 -> RawFormat(IdText(i), "webm", "vp9", "none",
                            PyInt(((i * 7) % 5) * 144),
                            IF i % 2 = 0 THEN PyInt(60) ELSE PyFloat(29, 97),
                            AbsentNum, NoneNum)
      [] p = 3 -> RawFormat(IdText(i), "m4a", "none", "mp4a", AbsentNum, AbsentNum,
                            IF i % 4 = 0 THEN PyFloat(48, 7) ELSE PyInt(((i * 5) % 7) * 32),
                            PyInt(3 * MiB + 500000))
      [] p = 4 -> RawFormat(IdText(i % 12), "mp4",
                            IF i % 2 = 0 THEN "avc1" ELSE "none", "opus",
                            PyInt((i % 5) * 144), AbsentNum, PyInt((i % 5) * 48), NoneNum)
      [] OTHER -> RawFormat(IdText(i % 9), "mkv", "avc1", None,
                            PyInt(1080 - (i % 4) * 360), PyInt(25 + (i % 3) * 5),
                            AbsentNum, NoneNum)

LongPatterns == 1..5
LongInputs == {[i \in 1..n |-> LongEntry(p, i)] : n \in 0..MaxLong, p \in LongPatterns}

CatalogInputs ==
    SeqsUpTo(ClassEntries, MaxClassLen) \cup SeqsUpTo(DedupEntries, MaxDedupLen)
        \cup LongInputs

(***************************************************************************)
(* The bot: updates, the session store, the two engine calls               *)
(***************************************************************************)
MaxFiles == 2

Users == {"u1", "u2"}
\* handler invocations that can be in flight together
Tasks == {1, 2}

\* message texts, character by character
UrlA == <<"h","t","t","p",":","/","/","a">>
UrlB == <<"h","t","t","p","s",":","/","/","b">>
NoScheme == <<"a",".","c","o","m">>
Denied == <<"h","t","t","p",":","/","/","X","x","X">>
TextMessages == {UrlA, UrlB, NoScheme, Denied}

Http == <<"h","t","t","p",":","/","/">>
Https == <<"h","t","t","p","s",":","/","/">>
\* blacklisted_domains, line 85
Blacklisted == {<<"p","o","r","n">>, <<"x","x","x">>, <<"a","d","u","l","t">>}

\* str.lower(), on the letters the messages use in upper case
LowerChar(c) == CASE c = "X" -> "x" [] c = "P" -> "p" [] c = "A" -> "a" [] OTHER -> c
Lower(s) == [i \in 1..Len(s) |-> LowerChar(s[i])]

\* `sub in s`
Contains(s, sub) ==
    \E i \in 1..(Len(s) - Len(sub) + 1) : SubSeq(s, i, i + Len(sub) - 1) = sub

\* str.strip(), of blanks
RECURSIVE LStrip(_)
LStrip(s) == IF s # <<>> /\ Head(s) = " " THEN LStrip(Tail(s)) ELSE s
RECURSIVE RStrip(_)
RStrip(s) ==
    IF s # <<>> /\ s[Len(s)] = " " THEN RStrip(SubSeq(s, 1, Len(s) - 1)) ELSE s
Strip(s) == RStrip(LStrip(s))

\* line 80
ValidScheme(url) == StartsWith(url, Http) \/ StartsWith(url, Https)
\* the denylist test without .lower()
IsBlacklistedCaseSensitive(url) == \E domain \in Blacklisted : Contains(url, domain)

\* line 86
IsBlacklisted(url) == \E domain \in Blacklisted : Contains(Lower(url), domain)

\* format ids of the two sites
Id137 == <<"1","3","7">>
Id18 == <<"1","8">>
Id140 == <<"1","4","0">>
Id22 == <<"2","2">>

\* what extract_info can return for a URL: the metadata with its formats, with
\* no formats, and with a duration that is a float
FormatsOf(url) ==
    IF url = UrlA
    THEN <<RawFormat(Id137, "mp4", "avc1", "none", PyInt(1080), PyInt(30), AbsentNum,
                     PyInt(50 * MiB)),
           RawFormat(Id18, "mp4", "avc1", "mp4a", PyInt(360), PyInt(30), AbsentNum,
                     PyInt(10 * MiB)),
           RawFormat(Id140, "m4a", "none", "mp4a", AbsentNum, AbsentNum,
                     PyFloat(129, 5), NoneNum)>>
    ELSE <<RawFormat(Id22, "mp4", "avc1", "mp4a", PyInt(720), PyInt(30), AbsentNum,
                     NoneNum)>>

\* the metadata extract_info returns; its formats list is FormatsOf(webpage_url)
\* when has_formats, and empty otherwise
Info(url, has_formats, duration) ==
    [webpage_url |-> url, has_formats |-> has_formats, duration |-> duration]
InfoFormats(info) == IF info.has_formats THEN FormatsOf(info.webpage_url) ELSE <<>>

\* extract_info returning None (or an empty dict)
NoInfo == [none |-> TRUE]

InfoKinds == {"formats", "no formats", "float duration", "none"}
InfoOf(url, kind) ==
    CASE kind = "formats"        -> Info(url, TRUE, PyInt(213))
      [] kind = "no formats"     -> Info(url, FALSE, PyInt(213))
      [] kind = "float duration" -> Info(url, TRUE, PyFloat(213, 4))
      [] OTHER                   -> NoInfo

\* the messages of a DownloadError, by the substring the handler looks for
DownloadErrors == {"Private video", "Members only", "Content warning", "other"}

NoSession == [sid |-> 0]
NoEvent == [kind |-> "none"]
NoLocals == [none |-> TRUE]

InFlight(t) == pc[t] \notin {"idle", "done"}

\* sessions carry a number that tells apart the sessions of one user that are held
\* at one time: the least one not held by a handler in flight that read its session
SidsInUse(u) ==
    {loc[t].session.sid :
        t \in {x \in Tasks : InFlight(x) /\ ev[x].kind = "button" /\ ev[x].user = u
                                /\ "session" \in DOMAIN loc[x]}}
FreshSid(u) == CHOOSE n \in 1..(Cardinality(Tasks) + 1) :
                  n \notin SidsInUse(u) /\ \A m \in 1..(n - 1) : m \in SidsInUse(u)

\* user_sessions[user_id] = {...}: the entries the code reads back are 'url' (line
\* 286) and 'info' (line 287, the metadata of that url)
Session(url, audio_only, sid) == [url |-> url, audio_only |-> audio_only, sid |-> sid]

InitBot ==
    /\ user_sessions = [u \in Users |-> NoSession]
    /\ tmpdirs = {}
    /\ pc = [t \in Tasks |-> "idle"]
    /\ ev = [t \in Tasks |-> NoEvent]
    /\ loc = [t \in Tasks |-> NoLocals]
    /\ running = 0
    /\ menus = [u \in Users |-> {}]

\* the event loop can start a handler: no synchronous call holds it, and t is the
\* first invocation slot that is free
CanStart(t) ==
    /\ running = 0
    /\ ~InFlight(t)
    /\ \A x \in 1..(t - 1) : InFlight(x)

\* the event loop can resume handler t at the await named by label
CanResume(t, label) == running = 0 /\ pc[t] = label

Goto(t, label, locals) ==
    /\ pc' = [pc EXCEPT ![t] = label]
    /\ loc' = [loc EXCEPT ![t] = locals]
    /\ UNCHANGED catVars

\* the handler returns, or an exception leaves it (raised)
Done(t, raised) == Goto(t, "done", [loc[t] EXCEPT !.raised = raised])

\* /cancel that answers without touching the store
CancelKeepsSession(t, u) ==
    /\ CanStart(t)
    /\ ev' = [ev EXCEPT ![t] = [kind |-> "cancel", user |-> u]]
    /\ Goto(t, "reply_cancelled", [raised |-> FALSE, had |-> user_sessions[u] # NoSession])
    /\ UNCHANGED <<user_sessions, tmpdirs, running>>
    /\ UNCHANGED menus

(***************************************************************************)
(* cancel (lines 68-72)                                                    *)
(***************************************************************************)
Cancel(t, u) ==
    /\ CanStart(t)
    /\ ev' = [ev EXCEPT ![t] = [kind |-> "cancel", user |-> u]]
    /\ user_sessions' = [user_sessions EXCEPT ![u] = NoSession]
    /\ Goto(t, "reply_cancelled", [raised |-> FALSE, had |-> user_sessions[u] # NoSession])
    /\ UNCHANGED <<tmpdirs, running>>
    /\ UNCHANGED menus

\* await update.message.reply_text("Operation cancelled.") comes back
CancelReplied(t, ok) ==
    /\ CanResume(t, "reply_cancelled")
    /\ Done(t, ~ok)
    /\ UNCHANGED <<user_sessions, tmpdirs, ev, running>>
    /\ UNCHANGED menus

\* the preset tokens (lines 251-255)
AudioMp3Best == <<"a","u","d","i","o","_","m","p","3","_","b","e","s","t">>
AudioMp3_128 == <<"a","u","d","i","o","_","m","p","3","_","1","2","8">>
AudioMp3_64 == <<"a","u","d","i","o","_","m","p","3","_","6","4">>
AudioM4a == <<"a","u","d","i","o","_","m","4","a">>
AudioOpus == <<"a","u","d","i","o","_","o","p","u","s">>
PresetTokens == {AudioMp3Best, AudioMp3_128, AudioMp3_64, AudioM4a, AudioOpus}

\* lines 250-257: the keyboard of show_audio_options
AudioKeyboard ==
    <<Button(<<Text("MP3 (Best Quality)")>>, AudioMp3Best),
      Button(<<Text("MP3 (128kbps)")>>, AudioMp3_128),
      Button(<<Text("MP3 (64kbps)")>>, AudioMp3_64),
      Button(<<Text("M4A/AAC")>>, AudioM4a),
      Button(<<Text("Opus")>>, AudioOpus),
      Button(<<Text("Cancel")>>, CancelToken)>>

\* lines 124-206 for the formats of url
KeyboardFor(url) ==
    LET lists == Classify(FormatsOf(url)) IN
    BuildKeyboard(SortedDesc(DedupById(lists.video), "video"),
                  SortedDesc(DedupById(lists.audio), "audio"))

\* the callback data on the rows of a keyboard
TokensOf(rows) == {rows[i].callback_data : i \in 1..Len(rows)}

(***************************************************************************)
(* handle_url (lines 75-236)                                               *)
(***************************************************************************)
\* lines 76-92: validation, then the first reply
HandleUrl(t, u, text) ==
    /\ CanStart(t)
    /\ ev' = [ev EXCEPT ![t] = [kind |-> "url", user |-> u, text |-> text]]
    /\ LET url == Strip(text)
           locals == [url |-> url, raised |-> FALSE, extract |-> "pending", caught |-> FALSE]
       IN  IF ~ValidScheme(url) THEN Goto(t, "reply_invalid", locals)
           ELSE IF IsBlacklisted(url) THEN Goto(t, "reply_unsupported", locals)
           ELSE Goto(t, "reply_processing", locals)
    /\ UNCHANGED <<user_sessions, tmpdirs, running>>
    /\ UNCHANGED menus

\* lines 81-82 and 87-88: the rejection was sent (or sending it raised)
UrlRejected(t, ok) ==
    /\ running = 0
    /\ pc[t] \in {"reply_invalid", "reply_unsupported"}
    /\ Done(t, ~ok)
    /\ UNCHANGED <<user_sessions, tmpdirs, ev, running>>
    /\ UNCHANGED menus

\* line 92 comes back: on success the handler enters extract_info (line 102), a
\* synchronous call; a raise goes to `except Exception` (lines 234-236)
UrlProcessingReplied(t, ok) ==
    /\ CanResume(t, "reply_processing")
    /\ IF ok
       THEN Goto(t, "extract_info", loc[t]) /\ running' = t
       ELSE Goto(t, "reply_error", [loc[t] EXCEPT !.caught = TRUE]) /\ running' = 0
    /\ UNCHANGED <<user_sessions, tmpdirs, ev>>
    /\ UNCHANGED menus

\* extract_info raises: DownloadError (lines 224-233) or another exception
ExtractRaises(t, error) ==
    /\ running = t /\ pc[t] = "extract_info"
    /\ running' = 0
    /\ IF error \in DownloadErrors
       THEN Goto(t, "reply_download_error",
                 [loc[t] EXCEPT !.extract = error, !.caught = TRUE])
       ELSE Goto(t, "reply_error", [loc[t] EXCEPT !.extract = error, !.caught = TRUE])
    /\ UNCHANGED <<user_sessions, tmpdirs, ev>>
    /\ UNCHANGED menus

\* f"{duration // 60}:{duration % 60:02d}" raises for a float (line 213)
MessageRaises(info) == Truthy(info.duration) /\ info.duration.t # "int"

\* the session stored before the `if not info` test of line 104
ExtractReturnsStoresFirst(t, kind) ==
    /\ running = t /\ pc[t] = "extract_info"
    /\ running' = 0
    /\ LET u == ev[t].user
           info == InfoOf(loc[t].url, kind) IN
       /\ user_sessions' = [user_sessions EXCEPT ![u] =
                Session(loc[t].url, info # NoInfo /\ InfoFormats(info) = <<>>, FreshSid(u))]
       /\ IF info = NoInfo
          THEN Goto(t, "edit_noinfo", [loc[t] EXCEPT !.extract = kind])
          ELSE IF InfoFormats(info) = <<>>
          THEN Goto(t, "reply_audio_menu", [loc[t] EXCEPT !.extract = kind])
          ELSE IF MessageRaises(info)
          THEN Goto(t, "reply_error", [loc[t] EXCEPT !.extract = kind, !.caught = TRUE])
          ELSE Goto(t, "edit_menu", [loc[t] EXCEPT !.extract = kind])
    /\ UNCHANGED <<tmpdirs, ev>>
    /\ UNCHANGED menus

\* extract_info returns (lines 104-222)
ExtractReturns(t, kind) ==
    /\ running = t /\ pc[t] = "extract_info"
    /\ running' = 0
    /\ LET u == ev[t].user
           info == InfoOf(loc[t].url, kind) IN
       IF info = NoInfo
       THEN \* lines 104-106
            /\ Goto(t, "edit_noinfo", [loc[t] EXCEPT !.extract = kind])
            /\ UNCHANGED user_sessions
       ELSE IF InfoFormats(info) = <<>>
       THEN \* lines 109-121, with show_audio_options up to its reply (239-264)
            /\ user_sessions' = [user_sessions EXCEPT ![u] =
                    Session(info.webpage_url, TRUE, FreshSid(u))]
            /\ Goto(t, "reply_audio_menu", [loc[t] EXCEPT !.extract = kind])
       ELSE \* lines 109-222
            /\ user_sessions' = [user_sessions EXCEPT ![u] =
                    Session(loc[t].url, FALSE, FreshSid(u))]
            /\ IF MessageRaises(info)
               THEN Goto(t, "reply_error", [loc[t] EXCEPT !.extract = kind, !.caught = TRUE])
               ELSE Goto(t, "edit_menu", [loc[t] EXCEPT !.extract = kind])
    /\ UNCHANGED <<tmpdirs, ev>>
    /\ UNCHANGED menus

\* an await inside the try comes back (lines 105, 222, 264): return, or a raise
\* that `except Exception` answers (lines 234-236)
UrlShown(t, ok) ==
    /\ running = 0
    /\ pc[t] \in {"edit_noinfo", "edit_menu", "reply_audio_menu"}
    /\ IF ok THEN Done(t, FALSE)
       ELSE Goto(t, "reply_error", [loc[t] EXCEPT !.caught = TRUE])
    /\ menus' =
         IF ok /\ pc[t] = "edit_menu"
         THEN [menus EXCEPT ![ev[t].user] = @ \cup TokensOf(KeyboardFor(loc[t].url))]
         ELSE IF ok /\ pc[t] = "reply_audio_menu"
         THEN [menus EXCEPT ![ev[t].user] = @ \cup TokensOf(AudioKeyboard)]
         ELSE menus
    /\ UNCHANGED <<user_sessions, tmpdirs, ev, running>>

\* the reply of an except block comes back (lines 227-236)
UrlErrorReplied(t, ok) ==
    /\ running = 0
    /\ pc[t] \in {"reply_download_error", "reply_error"}
    /\ Done(t, ~ok)
    /\ UNCHANGED <<user_sessions, tmpdirs, ev, running>>
    /\ UNCHANGED menus

(***************************************************************************)
(* button_callback (lines 267-426)                                         *)
(***************************************************************************)

\* the callback data a user can send: those of the buttons in the chat
Pressable(u) == menus[u]

\* the callback data the updates carry
ButtonData ==
    {CancelToken, VideoToken(Id137), AudioToken(Id140), AudioMp3_128,
     HeaderVideo, HeaderAudio}

Unset == [t |-> "unset"]
FormatId(id) == [t |-> "id", id |-> id]
BestAudio == [t |-> "text", s |-> "bestaudio/best"]
ExtractAudio(codec, quality) ==
    [key |-> "FFmpegExtractAudio", preferredcodec |-> codec, preferredquality |-> quality]

\* the identifier taken as data.split('_')[1] instead of data[2:]
RECURSIVE UpToUnderscore(_)
UpToUnderscore(s) ==
    IF s = <<>> \/ Head(s) = "_" THEN <<>> ELSE <<Head(s)>> \o UpToUnderscore(Tail(s))
YdlOptsSplit(data) ==
    IF StartsWith(data, <<"v", "_">>) \/ StartsWith(data, <<"a", "_">>)
    THEN [format |-> FormatId(UpToUnderscore(SubSeq(data, 3, Len(data)))),
          postprocessors |-> Unset]
    ELSE IF data = AudioMp3Best
    THEN [format |-> BestAudio, postprocessors |-> ExtractAudio("mp3", "192")]
    ELSE IF data = AudioMp3_128
    THEN [format |-> BestAudio, postprocessors |-> ExtractAudio("mp3", "128")]
    ELSE IF data = AudioMp3_64
    THEN [format |-> BestAudio, postprocessors |-> ExtractAudio("mp3", "64")]
    ELSE IF data = AudioM4a
    THEN [format |-> BestAudio, postprocessors |-> ExtractAudio("m4a", "unset")]
    ELSE IF data = AudioOpus
    THEN [format |-> BestAudio, postprocessors |-> ExtractAudio("opus", "unset")]
    ELSE [format |-> Unset, postprocessors |-> Unset]

\* lines 296-360: ydl_opts['format'] and ydl_opts['postprocessors'] for the data
YdlOpts(data) ==
    IF StartsWith(data, <<"v", "_">>)
    THEN [format |-> FormatId(SubSeq(data, 3, Len(data))), postprocessors |-> Unset]
    ELSE IF StartsWith(data, <<"a", "_">>)
    THEN [format |-> FormatId(SubSeq(data, 3, Len(data))), postprocessors |-> Unset]
    ELSE IF data = AudioMp3Best
    THEN [format |-> BestAudio, postprocessors |-> ExtractAudio("mp3", "192")]
    ELSE IF data = AudioMp3_128
    THEN [format |-> BestAudio, postprocessors |-> ExtractAudio("mp3", "128")]
    ELSE IF data = AudioMp3_64
    THEN [format |-> BestAudio, postprocessors |-> ExtractAudio("mp3", "64")]
    ELSE IF data = AudioM4a
    THEN [format |-> BestAudio, postprocessors |-> ExtractAudio("m4a", "unset")]
    ELSE IF data = AudioOpus
    THEN [format |-> BestAudio, postprocessors |-> ExtractAudio("opus", "unset")]
    ELSE [format |-> Unset, postprocessors |-> Unset]

\* line 382
SizeLimit == 50 * 1024 * 1024
\* line 370
MediaExts == {"mp4", "mkv", "webm", "mp3", "m4a", "opus", "aac", "flac", "wav"}
\* line 392
AudioExts == {"mp3", "m4a", "opus", "aac", "flac", "wav"}

File(ext, size) == [ext |-> ext, size |-> size]
\* the files a download can leave in the directory
FileChoices ==
    {File("mp4", SizeLimit), File("mp4", SizeLimit + 1), File("mp3", SizeLimit - 1),
     File("jpg", 4096)}
Listings == SeqsUpTo(FileChoices, MaxFiles)

\* lines 367-371
RECURSIVE MediaFiles(_)
MediaFiles(listing) ==
    IF listing = <<>> THEN <<>>
    ELSE (IF Head(listing).ext \in MediaExts THEN <<Head(listing)>> ELSE <<>>)
            \o MediaFiles(Tail(listing))

\* lines 267-269: the handler starts and awaits query.answer()
ButtonCallback(t, u, data) ==
    /\ CanStart(t)
    /\ data \in Pressable(u)
    /\ ev' = [ev EXCEPT ![t] = [kind |-> "button", user |-> u, data |-> data]]
    /\ Goto(t, "answer", [raised |-> FALSE, shown |-> "menu"])
    /\ UNCHANGED <<user_sessions, tmpdirs, running>>
    /\ UNCHANGED menus

\* lines 271-294: query.answer() comes back
Answered(t, ok) ==
    /\ CanResume(t, "answer")
    /\ LET u == ev[t].user IN
       IF ~ok
       THEN Done(t, TRUE) /\ UNCHANGED <<user_sessions, tmpdirs>>
       ELSE IF ev[t].data = CancelToken
       THEN /\ user_sessions' = [user_sessions EXCEPT ![u] = NoSession]
            /\ Goto(t, "edit_cancelled",
                    [raised |-> FALSE, shown |-> "menu", had |-> user_sessions[u] # NoSession])
            /\ UNCHANGED tmpdirs
       ELSE IF user_sessions[u] = NoSession
       THEN /\ Goto(t, "edit_expired", loc[t])
            /\ UNCHANGED <<user_sessions, tmpdirs>>
       ELSE /\ tmpdirs' = tmpdirs \cup {t}
            /\ Goto(t, "edit_downloading",
                    [raised |-> FALSE, shown |-> "menu",
                     session |-> user_sessions[u], made |-> 1, removed |-> 0,
                     downloaded_files |-> <<>>, idx |-> 0, handed |-> {},
                     exc |-> "none", opts |-> Unset])
            /\ UNCHANGED user_sessions
    /\ UNCHANGED <<ev, running>>
    /\ UNCHANGED menus

\* lines 277-278 and 281-282: the edit comes back and the handler returns
EarlyReturn(t, ok) ==
    /\ running = 0
    /\ pc[t] \in {"edit_cancelled", "edit_expired"}
    /\ Done(t, ~ok)
    /\ UNCHANGED <<user_sessions, tmpdirs, ev, running>>
    /\ UNCHANGED menus

\* a successful query.edit_message_text(text)
Shown(locals, ok, text) == IF ok THEN [locals EXCEPT !.shown = text] ELSE locals

\* lines 413-415: `except Exception`, up to its edit_message_text
Except(t, locals, what) == Goto(t, "edit_failed", [locals EXCEPT !.exc = what])

\* the session deleted at the end of the try body (after line 411), not in finally
FinallyDeletesSessionAtEnd(t, locals, how) ==
    /\ tmpdirs' = tmpdirs \ {t}
    /\ user_sessions' =
         IF how = "end" /\ locals.exc = "none"
         THEN [user_sessions EXCEPT ![ev[t].user] = NoSession]
         ELSE user_sessions
    /\ Goto(t, "done",
            [locals EXCEPT !.raised = (how = "raise"),
                           !.removed = IF t \in tmpdirs THEN @ + 1 ELSE @])

\* the directory removed under the `# Clean up` comment of line 410, not in finally
FinallyRemovesDirAtEnd(t, locals, how) ==
    /\ tmpdirs' = IF how = "end" /\ locals.exc = "none" THEN tmpdirs \ {t} ELSE tmpdirs
    /\ user_sessions' = [user_sessions EXCEPT ![ev[t].user] = NoSession]
    /\ Goto(t, "done",
            [locals EXCEPT !.raised = (how = "raise"),
                           !.removed = IF how = "end" /\ locals.exc = "none" /\ t \in tmpdirs
                                       THEN @ + 1 ELSE @])

\* the store emptied as a whole (user_sessions.clear()) instead of `del` of one key
FinallyClearsStore(t, locals, how) ==
    /\ tmpdirs' = tmpdirs \ {t}
    /\ user_sessions' = [u \in Users |-> NoSession]
    /\ Goto(t, "done",
            [locals EXCEPT !.raised = (how = "raise"),
                           !.removed = IF t \in tmpdirs THEN @ + 1 ELSE @])

\* lines 417-426: the finally block, then the handler ends. how tells the way
\* the try statement is left: "end", "return" (line 375) or "raise"
Finally(t, locals, how) ==
    /\ tmpdirs' = tmpdirs \ {t}
    /\ user_sessions' = [user_sessions EXCEPT ![ev[t].user] = NoSession]
    /\ Goto(t, "done",
            [locals EXCEPT !.raised = (how = "raise"),
                           !.removed = IF t \in tmpdirs THEN @ + 1 ELSE @])

\* the loop with `>=` in the size test of line 382
DeliverSkipsAtLimit(t, locals, i) ==
    IF i > Len(locals.downloaded_files)
    THEN Goto(t, "edit_complete", [locals EXCEPT !.idx = i])
    ELSE LET file == locals.downloaded_files[i] IN
         IF file.size >= SizeLimit
         THEN Goto(t, "edit_too_large", [locals EXCEPT !.idx = i])
         ELSE Goto(t, IF file.ext \in AudioExts THEN "send_audio" ELSE "send_video",
                   [locals EXCEPT !.idx = i, !.handed = @ \cup {i}])

\* lines 378-408: the loop from file i on, up to its next await
Deliver(t, locals, i) ==
    IF i > Len(locals.downloaded_files)
    THEN Goto(t, "edit_complete", [locals EXCEPT !.idx = i])
    ELSE LET file == locals.downloaded_files[i] IN
         IF file.size > SizeLimit
         THEN Goto(t, "edit_too_large", [locals EXCEPT !.idx = i])
         ELSE Goto(t, IF file.ext \in AudioExts THEN "send_audio" ELSE "send_video",
                   [locals EXCEPT !.idx = i, !.handed = @ \cup {i}])

\* line 294 comes back: on success the options are built and the handler enters
\* ydl.download (line 364), a synchronous call
DownloadingShown(t, ok) ==
    /\ CanResume(t, "edit_downloading")
    /\ IF ok
       THEN /\ Goto(t, "download",
                    [Shown(loc[t], TRUE, "downloading") EXCEPT !.opts = YdlOpts(ev[t].data)])
            /\ running' = t
       ELSE Except(t, loc[t], "edit") /\ running' = 0
    /\ UNCHANGED <<user_sessions, tmpdirs, ev>>
    /\ UNCHANGED menus

\* ydl.download raises
DownloadRaises(t) ==
    /\ running = t /\ pc[t] = "download"
    /\ running' = 0
    /\ Except(t, loc[t], "download")
    /\ UNCHANGED <<user_sessions, tmpdirs, ev>>
    /\ UNCHANGED menus

\* ydl.download returns, leaving listing in the directory (lines 366-379)
DownloadReturns(t, listing) ==
    /\ running = t /\ pc[t] = "download"
    /\ running' = 0
    /\ LET locals == [loc[t] EXCEPT !.downloaded_files = MediaFiles(listing)] IN
       IF locals.downloaded_files = <<>>
       THEN Goto(t, "edit_no_file", locals)
       ELSE Deliver(t, locals, 1)
    /\ UNCHANGED <<user_sessions, tmpdirs, ev>>
    /\ UNCHANGED menus

\* line 374 comes back: `return` at line 375, through the finally block
NoFileShown(t, ok) ==
    /\ CanResume(t, "edit_no_file")
    /\ IF ok
       THEN Finally(t, Shown(loc[t], TRUE, "no file"), "return")
       ELSE Except(t, loc[t], "edit") /\ UNCHANGED <<user_sessions, tmpdirs>>
    /\ UNCHANGED <<ev, running>>
    /\ UNCHANGED menus

\* line 383 comes back: `continue`
TooLargeShown(t, ok) ==
    /\ CanResume(t, "edit_too_large")
    /\ IF ok
       THEN Deliver(t, Shown(loc[t], TRUE, "too large"), loc[t].idx + 1)
       ELSE Except(t, loc[t], "edit")
    /\ UNCHANGED <<user_sessions, tmpdirs, ev, running>>
    /\ UNCHANGED menus

\* send_audio or send_video comes back (lines 393-408)
Sent(t, ok) ==
    /\ running = 0
    /\ pc[t] \in {"send_audio", "send_video"}
    /\ IF ok
       THEN Deliver(t, loc[t], loc[t].idx + 1)
       ELSE Except(t, loc[t], "send")
    /\ UNCHANGED <<user_sessions, tmpdirs, ev, running>>
    /\ UNCHANGED menus

\* line 411 comes back: the try body ends
CompleteShown(t, ok) ==
    /\ CanResume(t, "edit_complete")
    /\ IF ok
       THEN Finally(t, Shown(loc[t], TRUE, "complete"), "end")
       ELSE Except(t, loc[t], "edit") /\ UNCHANGED <<user_sessions, tmpdirs>>
    /\ UNCHANGED <<ev, running>>
    /\ UNCHANGED menus

\* line 415 comes back: the except block ends, or raises in its turn
FailedShown(t, ok) ==
    /\ CanResume(t, "edit_failed")
    /\ Finally(t, Shown(loc[t], ok, "failed"), IF ok THEN "end" ELSE "raise")
    /\ UNCHANGED <<ev, running>>
    /\ UNCHANGED menus

\* one step of invocation t, for updates and engine results drawn from the sets
Step(t, users, texts, kinds, datas, listings) ==
    \/ \E u \in users : Cancel(t, u)
    \/ \E u \in users, text \in texts : HandleUrl(t, u, text)
    \/ \E u \in users, data \in datas : ButtonCallback(t, u, data)
    \/ \E ok \in BOOLEAN :
        \/ CancelReplied(t, ok)
        \/ UrlRejected(t, ok)
        \/ UrlProcessingReplied(t, ok)
        \/ UrlShown(t, ok)
        \/ UrlErrorReplied(t, ok)
        \/ Answered(t, ok)
        \/ EarlyReturn(t, ok)
        \/ DownloadingShown(t, ok)
        \/ NoFileShown(t, ok)
        \/ TooLargeShown(t, ok)
        \/ Sent(t, ok)
        \/ CompleteShown(t, ok)
        \/ FailedShown(t, ok)
    \/ \E error \in DownloadErrors \cup {"Exception"} : ExtractRaises(t, error)
    \/ \E kind \in kinds : ExtractReturns(t, kind)
    \/ DownloadRaises(t)
    \/ \E listing \in listings : DownloadReturns(t, listing)

Init ==
    /\ InitBot
    /\ formats = <<>>
    /\ stage = "raw"
    /\ video_formats = <<>>
    /\ audio_formats = <<>>
    /\ keyboard = <<>>

\* updates handled one at a time, each handler run to its end before the next
\* update is taken up
Next == Step(1, {"u1"}, TextMessages, InfoKinds, ButtonData, Listings)

Spec == Init /\ [][Next]_vars

\* updates handled concurrently: two handlers in flight, interleaved at their awaits
ConcurrentTexts == {UrlA, NoScheme}
ConcurrentData == {CancelToken, VideoToken(Id137)}
ConcurrentKinds == {"formats", "none"}
ConcurrentListings == {<<>>, <<File("mp4", SizeLimit)>>, <<File("mp4", SizeLimit + 1)>>}

NextConcurrent ==
    \E t \in Tasks : Step(t, Users, ConcurrentTexts, ConcurrentKinds, ConcurrentData,
                          ConcurrentListings)

SpecConcurrent == Init /\ [][NextConcurrent]_vars

InitCatalog ==
    /\ formats \in CatalogInputs
    /\ stage = "raw"
    /\ video_formats = <<>>
    /\ audio_formats = <<>>
    /\ keyboard = <<>>
    /\ InitBot

\* lines 124-169
ClassifyFormats ==
    /\ stage = "raw"
    /\ formats # <<>>
    /\ video_formats' = Classify(formats).video
    /\ audio_formats' = Classify(formats).audio
    /\ stage' = "classified"
    /\ UNCHANGED <<formats, keyboard>>
    /\ UNCHANGED botVars

\* lines 172-182
DedupAndSort ==
    /\ stage = "classified"
    /\ video_formats' = SortedDesc(DedupById(video_formats), "video")
    /\ audio_formats' = SortedDesc(DedupById(audio_formats), "audio")
    /\ stage' = "sorted"
    /\ UNCHANGED <<formats, keyboard>>
    /\ UNCHANGED botVars

\* lines 185-206
CreateKeyboard ==
    /\ stage = "sorted"
    /\ keyboard' = BuildKeyboard(video_formats, audio_formats)
    /\ stage' = "keyboard"
    /\ UNCHANGED <<formats, video_formats, audio_formats>>
    /\ UNCHANGED botVars

NextCatalog == ClassifyFormats \/ DedupAndSort \/ CreateKeyboard

SpecCatalog == InitCatalog /\ [][NextCatalog]_vars

(***************************************************************************)
(* The keyboards and the decoder: every button of a menu pressed             *)
(***************************************************************************)
MaxTokenLen == 2

\* identifiers that test the prefixes: with `_`, and spelling other tokens
TokenIds ==
    {Id137, <<"a","_","1">>, <<"v","_","2">>, <<"u","d","i","o","_","m","4","a">>,
     <<"c","a","n","c","e","l">>}
TokenEntries ==
    {RawFormat(id, "mp4", "avc1", "mp4a", PyInt(360), PyInt(30), AbsentNum, NoneNum) :
        id \in TokenIds}
    \cup
    {RawFormat(id, "m4a", "none", "mp4a", AbsentNum, AbsentNum, PyInt(128), NoneNum) :
        id \in TokenIds}
TokenInputs == SeqsUpTo(TokenEntries, MaxTokenLen)

InitTokens ==
    /\ formats \in TokenInputs
    /\ stage = "raw"
    /\ video_formats = <<>>
    /\ audio_formats = <<>>
    /\ keyboard = <<>>
    /\ InitBot

\* lines 118-121 and 239-264: no formats, the preset menu
ShowAudioOptions ==
    /\ stage = "raw"
    /\ formats = <<>>
    /\ keyboard' = AudioKeyboard
    /\ stage' = "keyboard"
    /\ UNCHANGED <<formats, video_formats, audio_formats>>
    /\ UNCHANGED botVars

\* lines 272-360: button_callback reads query.data of the pressed row and decodes it
PressButton ==
    /\ stage = "keyboard"
    /\ \E row \in 1..Len(keyboard) :
        LET data == keyboard[row].callback_data IN
        /\ ev' = [ev EXCEPT ![1] = [kind |-> "button", user |-> "u1", data |-> data]]
        /\ loc' = [loc EXCEPT ![1] =
                    [row |-> row, cancel |-> data = CancelToken,
                     opts |-> IF data = CancelToken THEN Unset ELSE YdlOpts(data)]]
        /\ pc' = [pc EXCEPT ![1] = "decoded"]
    /\ stage' = "pressed"
    /\ UNCHANGED <<formats, video_formats, audio_formats, keyboard>>
    /\ UNCHANGED <<user_sessions, tmpdirs, running, menus>>

NextTokens ==
    ClassifyFormats \/ DedupAndSort \/ CreateKeyboard \/ ShowAudioOptions \/ PressButton

SpecTokens == InitTokens /\ [][NextTokens]_vars

(***************************************************************************)
(* Catalog properties                                                      *)
(***************************************************************************)
Min2(a, b) == IF a < b THEN a ELSE b
MaxOf(S) == CHOOSE x \in S : \A y \in S : y <= x
MinOf(S) == CHOOSE x \in S : \A y \in S : x <= y

\* the members of a set of indices, ascending
RECURSIVE Ascending(_)
Ascending(I) == IF I = {} THEN <<>> ELSE <<MinOf(I)>> \o Ascending(I \ {MinOf(I)})

\* the raw entries the loop put into the list of a kind
RawOfKind(kind) ==
    {i \in 1..Len(formats) :
        /\ ~Skipped(formats[i])
        /\ IF kind = "video" THEN IsVideo(formats[i]) ELSE IsAudio(formats[i])}
RawIds(kind) == {formats[i].format_id : i \in RawOfKind(kind)}
Occurrences(kind, id) == {i \in RawOfKind(kind) : formats[i].format_id = id}
LastIdx(kind, id) == MaxOf(Occurrences(kind, id))
FirstIdx(kind, id) == MinOf(Occurrences(kind, id))

\* what the classification rule of the specification says of one raw entry
HasIdAndExt(f) == f.format_id # NoId /\ f.ext # Absent
CodecPresent(c) == c # None /\ c # "none"
VideoByRule(f) == CodecPresent(f.vcodec)
AudioByRule(f) == f.vcodec = "none" /\ CodecPresent(f.acodec)

\* C7: every raw entry with an identifier and an extension is in the video list
\* iff its video codec is present and not "none", in the audio list iff its video
\* codec is "none" and its audio codec is present and not "none", and otherwise in
\* neither list (entries without identifier or extension are left open: S, T).
C7_ClassifiedByRule ==
    stage = "classified" =>
        LET open  == {i \in 1..Len(formats) : ~HasIdAndExt(formats[i])}
            vRule == {i \in 1..Len(formats) :
                        HasIdAndExt(formats[i]) /\ VideoByRule(formats[i])}
            aRule == {i \in 1..Len(formats) :
                        HasIdAndExt(formats[i]) /\ AudioByRule(formats[i])}
        IN  /\ \E S \in SUBSET open :
                LET idx == Ascending(vRule \cup S)
                IN  video_formats = [k \in 1..Len(idx) |-> VideoEntry(formats[idx[k]])]
            /\ \E T \in SUBSET open :
                LET idx == Ascending(aRule \cup T)
                IN  audio_formats = [k \in 1..Len(idx) |-> AudioEntry(formats[idx[k]])]

NoDupIds(list) ==
    \A i, j \in 1..Len(list) : i # j => list[i].id # list[j].id

LastWins(list, kind) ==
    /\ {list[k].id : k \in 1..Len(list)} = RawIds(kind)
    /\ \A k \in 1..Len(list) :
        LET f == formats[LastIdx(kind, list[k].id)]
        IN  /\ list[k].ext = f.ext
            /\ list[k].size = SizeMb(FileSizeOf(f))
            /\ list[k].quality =
                 (IF kind = "video" THEN VideoQuality(f) ELSE AudioQuality(f))

\* C8: after deduplication no two entries of a list share an identifier, and an
\* entry's quality, extension and size are those of the last raw entry of its kind
\* with its identifier.
C8_DedupLastWins ==
    stage \in {"sorted", "keyboard"} =>
        /\ NoDupIds(video_formats) /\ LastWins(video_formats, "video")
        /\ NoDupIds(audio_formats) /\ LastWins(audio_formats, "audio")

\* an identifier occurs twice within a kind, with different quality or size
C8_Witness ==
    /\ stage = "sorted"
    /\ \E i, j \in RawOfKind("video") :
        /\ i < j /\ formats[i].format_id = formats[j].format_id
        /\ VideoEntry(formats[i]) # VideoEntry(formats[j])
    /\ \E i, j \in RawOfKind("audio") :
        /\ i < j /\ formats[i].format_id = formats[j].format_id
        /\ AudioEntry(formats[i]) # AudioEntry(formats[j])

\* the identifiers of the buttons whose callback data starts with prefix
RECURSIVE OfferedIds(_, _)
OfferedIds(rows, prefix) ==
    IF rows = <<>> THEN <<>>
    ELSE LET d == Head(rows).callback_data
         IN  (IF StartsWith(d, prefix) THEN <<SubSeq(d, 3, Len(d))>> ELSE <<>>)
                 \o OfferedIds(Tail(rows), prefix)

\* the sort key of the surviving entry of an identifier
RuleKey(kind, id) ==
    LET f == formats[LastIdx(kind, id)]
    IN  IF kind = "video"
        THEN (IF GetOr(f.height, PyInt(0)).t = "int" THEN GetOr(f.height, PyInt(0)).v ELSE 0)
        ELSE (IF Truthy(GetOr(f.abr, PyInt(0))) /\ f.abr.t = "int" THEN f.abr.v ELSE 0)

TopOffered(ids, kind, limit) ==
    /\ Len(ids) = Min2(limit, Cardinality(RawIds(kind)))
    /\ \A k \in 1..Len(ids) : ids[k] \in RawIds(kind)
    /\ \A k, l \in 1..Len(ids) : k < l =>
        /\ ids[k] # ids[l]
        /\ RuleKey(kind, ids[k]) >= RuleKey(kind, ids[l])
    /\ \A id \in RawIds(kind) : \A k \in 1..Len(ids) :
        id \notin {ids[l] : l \in 1..Len(ids)} => RuleKey(kind, id) <= RuleKey(kind, ids[k])

TwentyDistinctVideos ==
    /\ Len(formats) = 20
    /\ RawOfKind("video") = 1..20
    /\ Cardinality(RawIds("video")) = 20

C10_TiesInLastOccurrenceOrder ==
    stage = "sorted" =>
        \A k, l \in 1..Len(video_formats) :
            (k < l /\ VideoKey(video_formats[k]) = VideoKey(video_formats[l])) =>
                LastIdx("video", video_formats[k].id) < LastIdx("video", video_formats[l].id)

\* C10 amended: video entries of equal parsed height are in the order in which
\* their identifiers first occur among the raw video entries.
C10_TiesInFirstOccurrenceOrder ==
    stage = "sorted" =>
        \A k, l \in 1..Len(video_formats) :
            (k < l /\ VideoKey(video_formats[k]) = VideoKey(video_formats[l])) =>
                FirstIdx("video", video_formats[k].id) < FirstIdx("video", video_formats[l].id)

\* a tie between two entries, one of them a repeated identifier whose last
\* occurrence comes after the other entry
C10_Witness ==
    /\ stage = "sorted"
    /\ \E k, l \in 1..Len(video_formats) :
        /\ k < l
        /\ VideoKey(video_formats[k]) = VideoKey(video_formats[l])
        /\ LastIdx("video", video_formats[k].id) > LastIdx("video", video_formats[l].id)

(***************************************************************************)
(* Handler properties                                                      *)
(***************************************************************************)
IsButton(t) == ev[t].kind = "button"
\* the handler found a session at line 280 and read it (lines 285-287)
TookSession(t) == IsButton(t) /\ "session" \in DOMAIN loc[t]
Finishes(t) == InFlight(t) /\ pc'[t] = "done"

\* C1: when a handler that took up a selection (it found the user's session)
\* finishes, by whatever path, the user has no entry in the session store.
C1_SessionAbsentAfterSelection ==
    [][\A t \in Tasks :
        (TookSession(t) /\ Finishes(t)) => user_sessions'[ev[t].user] = NoSession]_vars

\* a selection ended by an exception out of the except block, the session gone
C1_Witness ==
    \E t \in Tasks :
        /\ pc[t] = "done" /\ TookSession(t)
        /\ loc[t].raised /\ loc[t].exc = "download"
        /\ user_sessions[ev[t].user] = NoSession

\* where button_callback holds a directory: from mkdtemp (line 290) to finally
WorkspacePcs ==
    {"edit_downloading", "download", "edit_no_file", "edit_too_large", "send_audio",
     "send_video", "edit_complete", "edit_failed"}

Started(t) == TookSession(t) /\ loc[t].opts # Unset

Recognized(data) ==
    \/ StartsWith(data, <<"v", "_">>)
    \/ StartsWith(data, <<"a", "_">>)
    \/ data \in PresetTokens

\* C4: the download engine is never invoked for a token that is neither cancel,
\* nor a v_/a_ token, nor a preset.
C4_UnknownTokenNeverDownloads ==
    \A t \in Tasks : (IsButton(t) /\ pc[t] = "download") => Recognized(ev[t].data)

\* C5: when the only failures of a delivery are skipped files and failed sends,
\* every produced file within the size ceiling was handed to the transport.
C5_EveryFileProcessed ==
    \A t \in Tasks :
        (/\ pc[t] = "done" /\ TookSession(t)
         /\ loc[t].downloaded_files # <<>>
         /\ loc[t].exc \in {"none", "send"})
            => \A i \in 1..Len(loc[t].downloaded_files) :
                    loc[t].downloaded_files[i].size <= 50 * 1024 * 1024 => i \in loc[t].handed

\* C6: while a handler is inside extract_info or download, the loop can take up
\* an update of another user, and can resume another user's handler.
C6_EngineCallsDoNotBlock ==
    \A t \in Tasks :
        pc[t] \in {"extract_info", "download"} =>
            \A t2 \in Tasks \ {t} :
                IF InFlight(t2)
                THEN ev[t2].user # ev[t].user =>
                        ENABLED Step(t2, Users, ConcurrentTexts, ConcurrentKinds, ConcurrentData,
                                     ConcurrentListings)
                ELSE \A u \in Users \ {ev[t].user} : ENABLED Cancel(t2, u)

FiftyMiB == 52428800
IsUrl(t) == ev[t].kind = "url"
\* invocation t takes the step
Steps(t) == pc'[t] # pc[t] \/ loc'[t] # loc[t] \/ ev'[t] # ev[t]

\* C11: in the delivery loop a file is skipped with the size notice exactly when
\* it has more than 52428800 bytes; every other file the loop came to was handed
\* to the transport.
C11_SkippedIffOverLimit ==
    \A t \in Tasks :
        (TookSession(t) /\ loc[t].idx > 0) =>
            LET files == loc[t].downloaded_files
                at == loc[t].idx IN
            /\ pc[t] = "edit_too_large" => files[at].size > FiftyMiB
            /\ pc[t] \in {"send_audio", "send_video"} =>
                    files[at].size <= FiftyMiB /\ at \in loc[t].handed
            /\ \A i \in 1..Len(files) :
                    /\ i \in loc[t].handed => files[i].size <= FiftyMiB
                    /\ i < at => (i \in loc[t].handed <=> files[i].size <= FiftyMiB)

\* a file of exactly 50 MiB was sent and one of a byte more was skipped
C11_Witness ==
    \E t \in Tasks :
        /\ TookSession(t) /\ pc[t] = "edit_complete"
        /\ \E i, j \in 1..Len(loc[t].downloaded_files) :
                /\ loc[t].downloaded_files[i].size = FiftyMiB /\ i \in loc[t].handed
                /\ loc[t].downloaded_files[j].size = FiftyMiB + 1 /\ j \notin loc[t].handed
        /\ loc[t].shown = "too large"

\* the validation rule: no scheme prefix, or a denylisted word in any letter case
HasDeniedWord(url) ==
    \E word \in {<<"p","o","r","n">>, <<"x","x","x">>, <<"a","d","u","l","t">>} :
        \E i \in 1..Len(url) :
            /\ i + Len(word) - 1 <= Len(url)
            /\ \A k \in 1..Len(word) : LowerChar(url[i + k - 1]) = word[k]
ToBeRejected(url) ==
    \/ ~(StartsWith(url, <<"h","t","t","p",":","/","/">>)
            \/ StartsWith(url, <<"h","t","t","p","s",":","/","/">>))
    \/ HasDeniedWord(url)

\* C12: a handler of a text that fails validation only sends its rejection: none
\* of its steps changes the session store and none enters the extraction engine.
C12_RejectedLeavesStore ==
    [][\A t \in Tasks :
        (/\ Steps(t)
         /\ ev'[t].kind = "url"
         /\ ToBeRejected(Strip(ev'[t].text)))
            => /\ user_sessions' = user_sessions
               /\ running' = 0
               /\ pc'[t] \in {"reply_invalid", "reply_unsupported", "done"}]_vars

\* a denylisted word in mixed case was rejected while the user holds a session
C12_Witness ==
    \E t \in Tasks :
        /\ IsUrl(t) /\ pc[t] = "done" /\ ~loc[t].raised
        /\ ev[t].text = Denied
        /\ user_sessions[ev[t].user] # NoSession

\* extract_info failed: a DownloadError of one of the four classes, or no metadata
ExtractionFailed(result) ==
    result \in {"Private video", "Members only", "Content warning", "other", "none"}

\* a selection that finds no session is answered "session expired", makes no
\* directory and goes no further
ExpiredWhenAbsent(t) ==
    (/\ IsButton(t) /\ pc[t] = "answer" /\ pc'[t] # "done"
     /\ ev[t].data # CancelToken
     /\ user_sessions[ev[t].user] = NoSession)
        => /\ pc'[t] = "edit_expired"
           /\ tmpdirs' = tmpdirs
           /\ user_sessions' = user_sessions
ExpiredIsFinal(t) ==
    (IsButton(t) /\ pc[t] = "edit_expired" /\ Steps(t)) =>
        pc'[t] = "done" /\ tmpdirs' = tmpdirs /\ user_sessions' = user_sessions

\* C13: no step of a URL handler whose extraction fails changes the session store,
\* so a user without a session has none when it finishes; and a selection of a
\* user without a session is answered "session expired".
C13_FailedExtractionNoSession ==
    [][\A t \in Tasks :
        /\ (Steps(t) /\ ev'[t].kind = "url" /\ ~ToBeRejected(Strip(ev'[t].text))
              /\ (loc'[t].extract = "pending" \/ ExtractionFailed(loc'[t].extract)))
                => user_sessions' = user_sessions
        /\ ExpiredWhenAbsent(t)
        /\ ExpiredIsFinal(t)]_vars

\* the extraction of a user without a session failed and the handler has finished
C13_Witness ==
    \E t \in Tasks :
        /\ IsUrl(t) /\ pc[t] = "done"
        /\ loc[t].extract = "Members only"
        /\ user_sessions[ev[t].user] = NoSession

\* the step is the start of /cancel for u
CancelStarts(t, u) ==
    /\ ~InFlight(t) /\ pc'[t] = "reply_cancelled"
    /\ ev'[t] = [kind |-> "cancel", user |-> u]
\* t is a cancel of either kind that has done its deletion
Cancelled(t) ==
    \/ ev[t].kind = "cancel" /\ pc[t] \in {"reply_cancelled", "done"}
    \/ IsButton(t) /\ ev[t].data = CancelToken /\ "had" \in DOMAIN loc[t]

\* C14: once a cancel has acted the user has no session (also when there was none,
\* and then the store is as before); a selection of a user without a session is
\* answered "session expired", starts no download and makes no directory.
C14_CancelThenExpired ==
    [][\A t \in Tasks :
        /\ Cancelled(t) => user_sessions[ev[t].user] = NoSession
        /\ \A u \in Users :
              (CancelStarts(t, u) /\ user_sessions[u] = NoSession) =>
                    user_sessions' = user_sessions
        /\ (IsButton(t) /\ pc[t] = "answer" /\ pc'[t] = "edit_cancelled"
              /\ user_sessions[ev[t].user] = NoSession) => user_sessions' = user_sessions
        /\ ExpiredWhenAbsent(t)
        /\ ExpiredIsFinal(t)
        /\ (IsButton(t) /\ pc[t] = "edit_expired") => "made" \notin DOMAIN loc[t]]_vars

\* a cancel that removed a session has finished
C14_Witness ==
    \E t \in Tasks :
        /\ Cancelled(t) /\ pc[t] = "done" /\ loc[t].had
        /\ user_sessions[ev[t].user] = NoSession

\* the rows of the catalog keyboard that carry an identifier
VideoRows == IF video_formats = <<>> THEN 0 ELSE Min2(8, Len(video_formats))
AudioRows == IF audio_formats = <<>> THEN 0 ELSE Min2(6, Len(audio_formats))
AudioOffset == IF VideoRows = 0 THEN 0 ELSE VideoRows + 1
IdDirective(id) == [format |-> [t |-> "id", id |-> id], postprocessors |-> [t |-> "unset"]]
PresetCodec == <<"mp3", "mp3", "mp3", "m4a", "opus">>

\* C15: the token of every selectable row decodes to what the row was built from:
\* a v_/a_ row to the identifier of its catalog entry and no transcoding, a preset
\* row to audio extraction with the preset's codec (and quality 128 and 64 for the
\* two rated presets); an identifier row is never read as cancel or as a preset,
\* and cancel and the presets are never read as identifier tokens.
C15_TokensRoundTrip ==
    stage = "pressed" =>
        LET row == loc[1].row
            opts == loc[1].opts IN
        IF formats = <<>>
        THEN IF row <= 5
             THEN /\ ~loc[1].cancel
                  /\ opts.format = [t |-> "text", s |-> "bestaudio/best"]
                  /\ opts.postprocessors.key = "FFmpegExtractAudio"
                  /\ opts.postprocessors.preferredcodec = PresetCodec[row]
                  /\ row = 2 => opts.postprocessors.preferredquality = "128"
                  /\ row = 3 => opts.postprocessors.preferredquality = "64"
             ELSE loc[1].cancel
        ELSE /\ (VideoRows > 0 /\ row \in 2..(VideoRows + 1)) =>
                    ~loc[1].cancel /\ opts = IdDirective(video_formats[row - 1].id)
             /\ (AudioRows > 0 /\ row \in (AudioOffset + 2)..(AudioOffset + AudioRows + 1)) =>
                    ~loc[1].cancel /\ opts = IdDirective(audio_formats[row - AudioOffset - 1].id)
             /\ row = Len(keyboard) => loc[1].cancel

\* an audio row whose identifier holds `_` and makes the token start like a preset
C15_Witness ==
    /\ stage = "pressed"
    /\ ev[1].data = <<"a","_","u","d","i","o","_","m","4","a">>
    /\ loc[1].opts.format = [t |-> "id", id |-> <<"u","d","i","o","_","m","4","a">>]
    /\ VideoRows > 0

\* C16: a step of a handler for one user leaves the session entry of every other
\* user as it was, whatever else is in flight.
C16_OtherUsersUntouched ==
    [][\A t \in Tasks :
        Steps(t) => \A u \in Users \ {ev'[t].user} : user_sessions'[u] = user_sessions[u]]_vars

\* one user's selection has ended and deleted its session while the other user,
\* with a handler in flight, still holds one
C16_Witness ==
    \E t \in Tasks, t2 \in Tasks :
        /\ pc[t] = "done" /\ TookSession(t)
        /\ InFlight(t2) /\ ev[t2].user # ev[t].user
        /\ user_sessions[ev[t].user] = NoSession
        /\ user_sessions[ev[t2].user] # NoSession

\* C17: a selection that ends with "Download complete" as the last status shown
\* has sent every file the download produced.
C17_CompleteMeansAllSent ==
    \A t \in Tasks :
        (TookSession(t) /\ pc[t] = "done" /\ loc[t].shown = "complete") =>
            \A i \in 1..Len(loc[t].downloaded_files) : i \in loc[t].handed

\* the buttons of the menu that belongs to a session
OfferedFor(session) ==
    IF session.audio_only THEN TokensOf(AudioKeyboard)
    ELSE TokensOf(KeyboardFor(session.url))

\* C18: the engine is invoked with an identifier token only when that token is on
\* the catalog keyboard of the URL the selection's session holds.
C18_IdFromSessionCatalog ==
    \A t \in Tasks :
        (TookSession(t) /\ pc[t] = "download" /\ loc[t].opts.format.t = "id") =>
            ev[t].data \in OfferedFor(loc[t].session)

StoredSession(result) == result \in {"formats", "no formats", "float duration"}

\* C20: a URL handler that stored a session and then ended through an except
\* block, reporting an error, leaves no session behind.
C20_ErrorLeavesNoSession ==
    \A t \in Tasks :
        (/\ IsUrl(t) /\ pc[t] = "done"
         /\ StoredSession(loc[t].extract) /\ loc[t].caught)
            => user_sessions[ev[t].user] = NoSession

====
